---- MODULE Spec2Model ----
(***************************************************************************)
(* Quine 3D visualiser: the query-result ingestion (parseQuineResult of    *)
(* services/quineService), the gesture control path (LiveClient and its    *)
(* onmessage handler feeding the smoothing callback of App), App's graph   *)
(* data and queries, the demo graph, and the frame callback of the scene.  *)
(*                                                                         *)
(* JavaScript values are tagged records: Null, Undefined, Num(n), Str(s),  *)
(* Arr(<<..>>) and Obj(f) with f a record of the fields the object has.    *)
(***************************************************************************)
EXTENDS Integers, Sequences, FiniteSets, TLC

VARIABLES
    \* ---- one call of parseQuineResult(result) ----
    result,      \* the argument of the call
    pc,          \* "start" | "rows" | "cols" | "items" | "done" | "returned" | "thrown"
    row,         \* index of result.results.forEach   (1-based)
    col,         \* index of row.forEach              (1-based)
    idx,         \* index of col.forEach              (1-based)
    nodesMap,    \* Map<string, GraphNode>: its values in insertion order
    links,       \* GraphLink[]
    randCalls,   \* number of Math.random() calls made so far
    output,      \* the GraphData returned (read when pc = "returned")
    \* ---- one LiveClient and what it holds ----
    connectPc,      \* where connect() stands: "init" | "getUserMedia" | "play" |
                    \*   "session" | "connected" | "noKey" | "failed"
    socket,         \* the live session's connection: "none" | "connecting" | "open" | "closed"
    activeSession,  \* "null" | "session"
    isConnected,    \* LiveClient.isConnected
    stream,         \* "null" | "live" | "stopped" (its tracks)
    videoInterval,  \* "undefined" | "running" | "cleared"
    audioContext,   \* "null" | "running" | "closed"
    source,         \* "null" | "connected" | "disconnected"
    processor,      \* "null" | "connected" | "disconnected"
    disconnected,   \* whether disconnect() has been called
    chunks,         \* number of sendRealtimeInput calls made so far
    isLiveConnected, \* App's isLiveConnected
    \* ---- the control path ----
    controlState,   \* App's controlState: [expansion, tension]
    updates,        \* number of onControlUpdate calls made so far
    lastMessage,    \* the message the last onmessage call was given
    sent,           \* the tool responses that call sent, in order
    threw,          \* whether that call ended in a TypeError
    \* ---- a run of updates with one sample ----
    start,          \* the control state the run began with
    sample,         \* the sample of every update of the run
    steps,          \* number of updates of the run so far
    \* ---- App and the scene ----
    graphData,      \* App's graphData
    error,          \* App's error
    requests,       \* the calls of handleExecuteQuery: where each one stands
    completed,      \* the calls that have ended, in the order they ended
    rendered,       \* the props and memos of Particles as last rendered
    seen,           \* what the last useFrame callback read
    randomCalls,    \* number of Math.random() calls App has made so far
    \* ---- one node in one frame ----
    frameIn,        \* original position and val of the node, control state, clock
    frameOut,       \* dummy.position and dummy.scale as the callback set them
    \* ---- one call of generateDemoGraph(count) ----
    demoArgs,       \* count and the outcomes of the Math.random() calls of the links
    demoGraph       \* the GraphData returned

ingestVars == <<result, pc, row, col, idx, nodesMap, links, randCalls, output>>
liveVars == <<connectPc, socket, activeSession, isConnected, stream,
              videoInterval, audioContext, source, processor, disconnected,
              chunks, isLiveConnected>>
controlVars == <<controlState, updates, lastMessage, sent, threw>>
smoothVars == <<start, sample, steps>>
appVars == <<graphData, error, requests, completed, rendered, seen, randomCalls>>
frameVars == <<frameIn, frameOut>>
demoVars == <<demoArgs, demoGraph>>
vars == <<ingestVars, liveVars, controlVars, smoothVars, appVars, frameVars, demoVars>>

-----------------------------------------------------------------------------
(* Bounds of the model *)

\* Size of result.results as a JSON tree: every row, every column and every
\* element of an array-valued column counts 1.
MaxSize == 4

\* Number of control updates in a run, and of function calls in a message.
MaxUpdates == 2

\* Significant bits of a floating-point number (53 in the code's doubles).
Precision == 6

\* Number of calls of handleExecuteQuery in a run.
MaxRequests == 2

\* Number of nodes of the demo graph (100 in the code).
DemoCount == 1

\* Number of frames rendered in a run.
MaxFrames == 2

\* Number of video frames and audio chunks sent in a run.
MaxChunks == 1

-----------------------------------------------------------------------------
(* JavaScript values *)

Null == [t |-> "null"]
Undefined == [t |-> "undefined"]
Num(n) == [t |-> "number", n |-> n]
Str(s) == [t |-> "string", s |-> s]
Arr(a) == [t |-> "array", a |-> a]
Obj(f) == [t |-> "object", f |-> f]
EmptyObj == [t |-> "object", f |-> <<>>]

\* typeof v
typeof(v) ==
    IF v.t \in {"null", "array", "object"} THEN "object" ELSE v.t

\* (a variant of !v that takes undefined for a value: v === null || ...)
Falsy_NotUndefined(v) ==
    \/ v.t = "null"
    \/ v.t = "number" /\ v.n = 0
    \/ v.t = "string" /\ v.s = ""

\* !v
Falsy(v) ==
    \/ v.t \in {"null", "undefined"}
    \/ v.t = "number" /\ v.n = 0
    \/ v.t = "string" /\ v.s = ""

\* Array.isArray(v)
isArray(v) == v.t = "array"

\* k in v, for v an object or an array and k one of the field names read here
In(k, v) == v.t = "object" /\ k \in DOMAIN v.f

\* v[k] for a v that is neither null nor undefined
Get(v, k) == IF In(k, v) THEN v.f[k] ELSE Undefined

\* String(v)
RECURSIVE Join(_)
Join(a) ==
    IF a = <<>> THEN ""
    ELSE LET h == Head(a)
             hs == CASE h.t = "number" -> ToString(h.n)
                     [] h.t = "string" -> h.s
                     [] h.t \in {"null", "undefined"} -> ""
                     [] h.t = "array" -> Join(h.a)
                     [] OTHER -> "[object Object]"
         IN IF Len(a) = 1 THEN hs ELSE hs \o "," \o Join(Tail(a))

String(v) ==
    CASE v.t = "number" -> ToString(v.n)
      [] v.t = "string" -> v.s
      [] v.t = "null" -> "null"
      [] v.t = "undefined" -> "undefined"
      [] v.t = "array" -> Join(v.a)
      [] OTHER -> "[object Object]"

-----------------------------------------------------------------------------
(* parseQuineResult: processItem *)

\* val is kept in halves: 2 stands for 1, 1 stands for 0.5
DefaultVal == 2
PlaceholderVal == 1

\* nodesMap.has(id)
has(m, id) == \E i \in 1..Len(m) : m[i].id = id

\* item.labels.length throws a TypeError on null and undefined
labelsThrows(item) == Get(item, "labels").t \in {"null", "undefined"}

\* (a variant of nodeGroup that takes the last label)
nodeGroup_LastLabel(item) ==
    LET labels == Get(item, "labels")
    IN IF labels.t = "array" /\ Len(labels.a) > 0 THEN labels.a[Len(labels.a)]
       ELSE Str("Default")

\* item.labels.length > 0 ? item.labels[0] : 'Default'
nodeGroup(item) ==
    LET labels == Get(item, "labels")
    IN IF labels.t = "array" /\ Len(labels.a) > 0 THEN labels.a[1]
       ELSE Str("Default")

\* 'id' in item && 'labels' in item
isNode(item) == In("id", item) /\ In("labels", item)

\* 'start' in item && 'end' in item
isRelationship(item) == In("start", item) /\ In("end", item)

\* a GraphNode. Its coordinates are (o - 0.5) * 40 for the outcomes o of the
\* next three Math.random() calls; x, y and z hold the numbers of these calls,
\* so the outcomes themselves stay open.
newNode(st, id, val, group) ==
    [id |-> id,
     x |-> st.randCalls + 1,
     y |-> st.randCalls + 2,
     z |-> st.randCalls + 3,
     val |-> val, group |-> group]

\* (a variant of the node branch that upgrades a placeholder in place)
nodeBranch_Upgrade(st, item) ==
    LET nodeId == String(item.f.id)
    IN IF has(st.nodesMap, nodeId)
       THEN IF labelsThrows(item) THEN st
            ELSE [st EXCEPT !.nodesMap =
                    [i \in 1..Len(@) |->
                       IF @[i].id = nodeId /\ @[i].group = Str("Unknown")
                       THEN [@[i] EXCEPT !.val = DefaultVal, !.group = nodeGroup(item)]
                       ELSE @[i]]]
       ELSE IF labelsThrows(item)
            THEN [st EXCEPT !.thrown = TRUE, !.randCalls = @ + 3]
            ELSE [st EXCEPT
                    !.nodesMap = Append(@, newNode(st, nodeId, DefaultVal, nodeGroup(item))),
                    !.randCalls = @ + 3]

\* the node branch of processItem
nodeBranch(st, item) ==
    LET nodeId == String(item.f.id)
    IN IF has(st.nodesMap, nodeId) THEN st
       ELSE IF labelsThrows(item)
            THEN [st EXCEPT !.thrown = TRUE, !.randCalls = @ + 3]
            ELSE [st EXCEPT
                    !.nodesMap = Append(@, newNode(st, nodeId, DefaultVal, nodeGroup(item))),
                    !.randCalls = @ + 3]

\* (a variant that forgets the end of the relationship)
placeholderIds_StartOnly(item) == <<item.f.start>>

\* [item.start, item.end]
placeholderIds(item) == <<item.f.start, item.f.end>>

\* (a variant that gives a placeholder the attributes of a node without labels)
placeholderNode_AsDefault(st, nodeId) == newNode(st, nodeId, DefaultVal, Str("Default"))

\* the node set for an endpoint that has none: val 0.5, group 'Unknown'
placeholderNode(st, nodeId) == newNode(st, nodeId, PlaceholderVal, Str("Unknown"))

\* [item.start, item.end].forEach(...): the placeholder nodes
RECURSIVE placeholders(_, _)
placeholders(st, ids) ==
    IF ids = <<>> THEN st
    ELSE LET nodeId == String(Head(ids))
             s1 == IF has(st.nodesMap, nodeId) THEN st
                   ELSE [st EXCEPT
                           !.nodesMap = Append(@, placeholderNode(st, nodeId)),
                           !.randCalls = @ + 3]
         IN placeholders(s1, Tail(ids))

\* (a variant that does not push a link the list already holds)
pushLink_Dedup(ls, item) ==
    LET l == [source |-> String(item.f.start), target |-> String(item.f.end)]
    IN IF \E i \in 1..Len(ls) : ls[i] = l THEN ls ELSE Append(ls, l)

\* links.push({source: String(item.start), target: String(item.end)})
pushLink(ls, item) ==
    Append(ls, [source |-> String(item.f.start), target |-> String(item.f.end)])

\* (a variant that keeps links valid by dropping those whose endpoints have
\* no node yet, instead of creating placeholders)
relBranch_KnownOnly(st, item) ==
    IF has(st.nodesMap, String(item.f.start)) /\ has(st.nodesMap, String(item.f.end))
    THEN [st EXCEPT !.links = pushLink(@, item)]
    ELSE st

\* the relationship branch of processItem
relBranch(st, item) ==
    placeholders([st EXCEPT !.links = pushLink(@, item)], placeholderIds(item))

\* processItem(item) on the closure state st = nodesMap, links (and the
\* count of Math.random() calls); st.thrown records a TypeError leaving the call
processItem(st, item) ==
    IF Falsy(item) \/ typeof(item) # "object" THEN st
    ELSE LET s1 == IF isNode(item) THEN nodeBranch(st, item) ELSE st
         IN IF s1.thrown THEN s1
            ELSE IF isRelationship(item) THEN relBranch(s1, item) ELSE s1

\* col.forEach(processItem)
RECURSIVE forEachItem(_, _)
forEachItem(st, items) ==
    IF items = <<>> \/ st.thrown THEN st
    ELSE forEachItem(processItem(st, Head(items)), Tail(items))

\* row.forEach((col) => ...)
RECURSIVE forEachCol(_, _)
forEachCol(st, cols) ==
    IF cols = <<>> \/ st.thrown THEN st
    ELSE forEachCol(IF isArray(Head(cols))
                    THEN forEachItem(st, Head(cols).a)
                    ELSE processItem(st, Head(cols)),
                    Tail(cols))

\* result.results.forEach((row) => ...)
RECURSIVE forEachRow(_, _)
forEachRow(st, rows) ==
    IF rows = <<>> \/ st.thrown THEN st
    ELSE IF isArray(Head(rows))
         THEN forEachRow(forEachCol(st, Head(rows).a), Tail(rows))
         ELSE [st EXCEPT !.thrown = TRUE]

\* parseQuineResult(result) as one call, made after `calls` calls of
\* Math.random(): the GraphData it returns, or thrown
parseQuineResultAt(v, calls) ==
    LET st0 == [nodesMap |-> <<>>, links |-> <<>>, randCalls |-> calls, thrown |-> FALSE]
        st == IF Falsy(v) \/ Falsy(Get(v, "results")) THEN st0
              ELSE IF isArray(Get(v, "results"))
                   THEN forEachRow(st0, Get(v, "results").a)
                   ELSE [st0 EXCEPT !.thrown = TRUE]
    IN [thrown |-> st.thrown,
        data |-> [nodes |-> st.nodesMap, links |-> st.links],
        randCalls |-> st.randCalls]

parseQuineResult(v) == parseQuineResultAt(v, 0)

-----------------------------------------------------------------------------
(* The raw results the call is given *)

NodeItems ==
    {Obj([id |-> Num(1), labels |-> Arr(<<Str("A")>>)]),
     Obj([id |-> Str("1"), labels |-> Arr(<<Str("B"), Str("A")>>)]),
     Obj([id |-> Num(2), labels |-> Arr(<<>>)]),
     Obj([id |-> Num(2), labels |-> Null])}

RelItems ==
    {Obj([start |-> Num(1), end |-> Str("2")]),
     Obj([start |-> Num(2), end |-> Num(3)])}

\* an item that is a node and a relationship at once
BothItems ==
    {Obj([id |-> Num(3), labels |-> Arr(<<Str("A")>>), start |-> Num(3), end |-> Num(1)])}

\* scalars, null and objects of no recognized shape
OtherItems == {Null, Num(7), Obj([id |-> Num(1)])}

Items == NodeItems \cup RelItems \cup BothItems \cup OtherItems

\* The shape of a column: -1 is a single item, j >= 0 an array of j items.
colSize(c) == IF c = -1 THEN 1 ELSE 1 + c
colSlots(c) == IF c = -1 THEN 1 ELSE c

\* the sequences of column shapes of total size n
ColShapes[n \in 0..MaxSize] ==
    IF n = 0 THEN {<<>>}
    ELSE UNION {{<<c>> \o rest : rest \in ColShapes[n - colSize(c)]} :
                  c \in {d \in (-1)..(n - 1) : colSize(d) <= n}}

\* The shape of a row of size k: an array of columns, or null, or a scalar.
RowShapes(k) ==
    {[kind |-> "array", cols |-> cs] : cs \in ColShapes[k - 1]}
    \cup (IF k = 1 THEN {[kind |-> "null", cols |-> <<>>],
                         [kind |-> "scalar", cols |-> <<>>]}
          ELSE {})

\* the sequences of row shapes of total size n
RowShapeSeqs[n \in 0..MaxSize] ==
    IF n = 0 THEN {<<>>}
    ELSE UNION {{<<r>> \o rest : r \in RowShapes(k), rest \in RowShapeSeqs[n - k]} :
                  k \in 1..n}

Shapes == UNION {RowShapeSeqs[n] : n \in 0..MaxSize}

RECURSIVE slotsOfCols(_)
slotsOfCols(cs) ==
    IF cs = <<>> THEN 0 ELSE colSlots(Head(cs)) + slotsOfCols(Tail(cs))

RECURSIVE slotsOfRows(_)
slotsOfRows(rs) ==
    IF rs = <<>> THEN 0 ELSE slotsOfCols(Head(rs).cols) + slotsOfRows(Tail(rs))

\* the columns of shapes cs filled with the items its[off + 1], its[off + 2], ...
RECURSIVE buildCols(_, _, _)
buildCols(cs, its, off) ==
    IF cs = <<>> THEN <<>>
    ELSE LET c == Head(cs)
         IN <<IF c = -1 THEN its[off + 1] ELSE Arr([i \in 1..c |-> its[off + i]])>>
            \o buildCols(Tail(cs), its, off + colSlots(c))

RECURSIVE buildRows(_, _, _)
buildRows(rs, its, off) ==
    IF rs = <<>> THEN <<>>
    ELSE LET r == Head(rs)
         IN <<CASE r.kind = "null" -> Null
                [] r.kind = "scalar" -> Num(7)
                [] OTHER -> Arr(buildCols(r.cols, its, off))>>
            \o buildRows(Tail(rs), its, off + slotsOfCols(r.cols))

\* results absent, null, or present and no sequence
NoRows ==
    {Null, Undefined, EmptyObj,
     Obj([results |-> Null]), Obj([results |-> Str("rows")]), Obj([results |-> EmptyObj])}

\* result is one of the payloads of size up to MaxSize
isPayload(v) ==
    \/ v \in NoRows
    \/ \E sh \in Shapes : \E its \in [1..slotsOfRows(sh) -> Items] :
         v = Obj([results |-> Arr(buildRows(sh, its, 0))])

-----------------------------------------------------------------------------
(* The control path: LiveClient and the smoothing callback of App.         *)
(*                                                                         *)
(* The numbers of this path are binary floating-point numbers, rounded to  *)
(* nearest, ties to even, after every operation. The code's numbers are    *)
(* IEEE doubles: 53 significant bits, least positive number 2^-1074. The   *)
(* model keeps Precision significant bits and the least positive number    *)
(* 1 / Den. Num(n) is the number n / Den.                                  *)

Frac == Precision + 4
Den == 2 ^ Frac

NaN == [t |-> "NaN"]
isNaN(v) == v.t = "NaN"

abs(i) == IF i < 0 THEN -i ELSE i

\* the number of bits of the natural number m
RECURSIVE bits(_)
bits(m) == IF m = 0 THEN 0 ELSE 1 + bits(m \div 2)

\* the distance, in units of 1 / Den, between the floating-point numbers
\* around a number of integer part m
spacing(m) == IF m < 2 ^ Precision THEN 1 ELSE 2 ^ (bits(m) - Precision)

\* the floating-point number nearest to num / den units (den > 0), ties to even
fl(num, den) ==
    LET mag == abs(num)
        step == spacing(mag \div den)
        q == mag \div (den * step)
        r == mag - q * den * step
        up == 2 * r > den * step \/ (2 * r = den * step /\ q % 2 = 1)
        n == (IF up THEN q + 1 ELSE q) * step
    IN IF num < 0 THEN -n ELSE n

\* a decimal literal p / q of the source, as the number it denotes
literal(p, q) == Num(fl(p * Den, q))

\* Number(v)
Number(v) ==
    CASE v.t = "number" -> v
      [] v.t = "NaN" -> NaN
      [] v.t = "null" -> Num(0)
      [] v.t = "string" -> (CASE v.s = "" -> Num(0)
                              [] v.s = "1" -> Num(Den)
                              [] OTHER -> NaN)
      [] v.t = "array" -> (IF v.a = <<>> THEN Num(0) ELSE NaN)
      [] OTHER -> NaN

\* v || 0
orZero(v) == IF Falsy(v) \/ isNaN(v) THEN Num(0) ELSE v

\* a + b, a - b and a * 0.5 on numbers
add(a, b) == IF isNaN(a) \/ isNaN(b) THEN NaN ELSE Num(fl(a.n + b.n, 1))
sub(a, b) == IF isNaN(a) \/ isNaN(b) THEN NaN ELSE Num(fl(a.n - b.n, 1))
half(a) == IF isNaN(a) THEN NaN ELSE Num(fl(a.n, 2))

\* a * b, a / b and Math.sqrt(a) on numbers. (0 / 0 is NaN; no other
\* division by 0 is made.)
mul(a, b) == IF isNaN(a) \/ isNaN(b) THEN NaN ELSE Num(fl(a.n * b.n, Den))
div(a, b) ==
    IF isNaN(a) \/ isNaN(b) \/ b.n = 0 THEN NaN
    ELSE Num(fl((IF b.n < 0 THEN -a.n ELSE a.n) * Den, abs(b.n)))

\* the greatest r in lo..hi with r * r <= m
RECURSIVE isqrt(_, _, _)
isqrt(lo, hi, m) ==
    IF lo = hi THEN lo
    ELSE LET mid == (lo + hi + 1) \div 2
         IN IF mid * mid <= m THEN isqrt(mid, hi, m) ELSE isqrt(lo, mid - 1, m)

sqrt(a) ==
    IF isNaN(a) \/ a.n < 0 THEN NaN
    ELSE LET m == a.n * Den
             r == isqrt(0, 32 * Den, m)
             step == spacing(r)
             lower == (r \div step) * step
             up == \/ 4 * m > (2 * lower + step) * (2 * lower + step)
                   \/ /\ 4 * m = (2 * lower + step) * (2 * lower + step)
                      /\ (r \div step) % 2 = 1
         IN Num(IF up THEN lower + step ELSE lower)

\* a > b
gt(a, b) == ~isNaN(a) /\ ~isNaN(b) /\ a.n > b.n

\* prev.f + (newState.f - prev.f) * 0.5
smooth(prev, new) == add(prev, half(sub(new, prev)))

\* (a variant of the updater that smooths tension from the other field)
onControlUpdate_Crossed(prev, newState) ==
    [expansion |-> smooth(prev.expansion, newState.expansion),
     tension |-> smooth(prev.expansion, newState.tension)]

\* the updater given to setControlState
onControlUpdate(prev, newState) ==
    [expansion |-> smooth(prev.expansion, newState.expansion),
     tension |-> smooth(prev.tension, newState.tension)]

\* { expansion: Number(args.expansion || 0), tension: Number(args.tension || 0) }
sampleOf(args) ==
    [expansion |-> Number(orZero(Get(args, "expansion"))),
     tension |-> Number(orZero(Get(args, "tension")))]

\* fc.args of the updateGraphControl calls a message may hold
Samples ==
    {Obj([expansion |-> Num(Den), tension |-> Num(Den)]),
     Obj([expansion |-> Num(2 * Den), tension |-> Num(-Den)]),
     Obj([expansion |-> Num(-3 * Den), tension |-> Num(4 * Den)]),
     Obj([expansion |-> Null, tension |-> Str("fist")]),
     EmptyObj,
     Undefined}

\* the function calls of a message, but for their ids
Calls ==
    {[name |-> "updateGraphControl", args |-> a] : a \in Samples}
    \cup {[name |-> "otherTool", args |-> Obj([expansion |-> Num(Den), tension |-> Num(Den)])]}

isUpdate(fc) == fc.name = "updateGraphControl"

\* message.toolCall.functionCalls for the calls cs, each with an id of its own
functionCalls(cs) ==
    [i \in 1..Len(cs) |-> [id |-> i, name |-> cs[i].name, args |-> cs[i].args]]

\* a LiveServerMessage: without toolCall, with a toolCall that has no
\* functionCalls, or with a toolCall of up to MaxUpdates function calls
Messages ==
    {[toolCall |-> "none", calls |-> <<>>], [toolCall |-> "empty", calls |-> <<>>]}
    \cup {[toolCall |-> "calls", calls |-> functionCalls(cs)] :
            cs \in UNION {[1..n -> Calls] : n \in 0..MaxUpdates}}

numUpdates(msg) == Cardinality({i \in 1..Len(msg.calls) : isUpdate(msg.calls[i])})

\* the body of the for loop of onmessage on the calls fcs, from the state
\* h = [cs, sent, updates, threw] of the handler
RECURSIVE handleCalls(_, _)
handleCalls(h, fcs) ==
    IF fcs = <<>> \/ h.threw THEN h
    ELSE LET fc == Head(fcs)
         IN IF ~isUpdate(fc) THEN handleCalls(h, Tail(fcs))
            ELSE IF fc.args.t \in {"null", "undefined"}
                 THEN [h EXCEPT !.threw = TRUE]
                 ELSE handleCalls(
                        [h EXCEPT
                           !.cs = onControlUpdate(@, sampleOf(fc.args)),
                           !.updates = @ + 1,
                           !.sent = IF activeSession # "null"
                                    THEN Append(@, [id |-> fc.id, name |-> fc.name])
                                    ELSE @],
                        Tail(fcs))

\* no run of updates with one sample is followed
IdleSmooth ==
    /\ start = Undefined
    /\ sample = Undefined
    /\ steps = 0

\* App and the scene are not followed
IdleApp ==
    /\ graphData = Undefined
    /\ error = Null
    /\ requests = <<>>
    /\ completed = <<>>
    /\ rendered = Undefined
    /\ seen = Undefined
    /\ randomCalls = 0

\* no frame is followed
IdleFrame ==
    /\ frameIn = Undefined
    /\ frameOut = Undefined

\* no call of generateDemoGraph is followed
IdleDemo ==
    /\ demoArgs = Undefined
    /\ demoGraph = Undefined

\* a LiveClient as constructed, and useState(false) of isLiveConnected
InitLiveClient ==
    /\ connectPc = "init"
    /\ socket = "none"
    /\ activeSession = "null"
    /\ isConnected = FALSE
    /\ stream = "null"
    /\ videoInterval = "undefined"
    /\ audioContext = "null"
    /\ source = "null"
    /\ processor = "null"
    /\ disconnected = FALSE
    /\ chunks = 0
    /\ isLiveConnected = FALSE

\* no message has been handled
InitMessages ==
    /\ updates = 0
    /\ lastMessage = [toolCall |-> "none", calls |-> <<>>]
    /\ sent = <<>>
    /\ threw = FALSE

\* useState<ControlState>({ expansion: 0.1, tension: 0.0 })
InitControlState == [expansion |-> literal(1, 10), tension |-> literal(0, 1)]

InitLive ==
    /\ InitLiveClient
    /\ controlState = InitControlState
    /\ InitMessages

\* no call of parseQuineResult is under way
IdleIngest ==
    /\ result = Undefined
    /\ pc = "idle"
    /\ row = 0 /\ col = 0 /\ idx = 0
    /\ nodesMap = <<>>
    /\ links = <<>>
    /\ randCalls = 0
    /\ output = Undefined

InitControl == InitLive /\ IdleIngest /\ IdleSmooth /\ IdleApp /\ IdleFrame /\ IdleDemo

\* setIsLiveConnected(true) of the then callback: React drops the update of
\* a component that is no longer mounted, and the cleanup of the effect has
\* run either because the component was unmounted or because the effect is
\* run anew
connectResolved ==
    IF disconnected
    THEN \E mounted \in BOOLEAN :
           isLiveConnected' = IF mounted THEN TRUE ELSE isLiveConnected
    ELSE isLiveConnected' = TRUE

\* connect(): the API key guard, process.env.API_KEY being set or not.
\* Without a key connect() returns, and the then callback of the effect runs.
ConnectStart ==
    /\ connectPc = "init"
    /\ \E apiKey \in BOOLEAN :
         IF apiKey
         THEN connectPc' = "getUserMedia" /\ UNCHANGED isLiveConnected
         ELSE connectPc' = "noKey" /\ connectResolved
    /\ UNCHANGED <<socket, activeSession, isConnected, stream, videoInterval,
                   audioContext, source, processor, disconnected, chunks>>
    /\ UNCHANGED <<ingestVars, controlVars, smoothVars, appVars, frameVars, demoVars>>

\* the catch block of connect(), and the catch callback of the effect
connectFailed ==
    /\ isConnected' = FALSE
    /\ activeSession' = "null"
    /\ connectPc' = "failed"
    /\ error' = Str("Failed to connect to Gemini Live. Check your Network or API Key.")
    /\ UNCHANGED <<graphData, requests, completed, rendered, seen, randomCalls>>
    /\ UNCHANGED <<ingestVars, controlVars, smoothVars, frameVars, demoVars>>

\* this.stream = await navigator.mediaDevices.getUserMedia(...)
GetUserMediaResolved ==
    /\ connectPc = "getUserMedia"
    /\ stream' = "live"
    /\ connectPc' = "play"
    /\ UNCHANGED <<socket, activeSession, isConnected, videoInterval,
                   audioContext, source, processor, disconnected, chunks, isLiveConnected>>
    /\ UNCHANGED <<ingestVars, controlVars, smoothVars, appVars, frameVars, demoVars>>

GetUserMediaRejected ==
    /\ connectPc = "getUserMedia"
    /\ connectFailed
    /\ UNCHANGED <<socket, stream, videoInterval,
                   audioContext, source, processor, disconnected, chunks, isLiveConnected>>

\* await videoElement.play(); then the AudioContext and ai.live.connect(...)
PlayResolved ==
    /\ connectPc = "play"
    /\ audioContext' = "running"
    /\ socket' = "connecting"
    /\ connectPc' = "session"
    /\ UNCHANGED <<activeSession, isConnected, stream, videoInterval,
                   source, processor, disconnected, chunks, isLiveConnected>>
    /\ UNCHANGED <<ingestVars, controlVars, smoothVars, appVars, frameVars, demoVars>>

PlayRejected ==
    /\ connectPc = "play"
    /\ connectFailed
    /\ UNCHANGED <<socket, stream, videoInterval,
                   audioContext, source, processor, disconnected, chunks, isLiveConnected>>

\* callbacks.onopen
OnOpen ==
    /\ socket = "connecting"
    /\ socket' = "open"
    /\ isConnected' = TRUE
    /\ UNCHANGED <<connectPc, activeSession, stream, videoInterval,
                   audioContext, source, processor, disconnected, chunks, isLiveConnected>>
    /\ UNCHANGED <<ingestVars, controlVars, smoothVars, appVars, frameVars, demoVars>>

\* this.activeSession = await sessionPromise; then startVideoStreaming and
\* startAudioStreaming. The promise resolved when the connection opened; the
\* connection may have closed again before connect() resumes. On an
\* AudioContext that disconnect() has closed, createMediaStreamSource throws
\* in some browsers and not in others: the catch block then runs, the timer
\* of startVideoStreaming being set already.
SessionResolved ==
    /\ connectPc = "session"
    /\ socket \in {"open", "closed"}
    /\ videoInterval' = "running"
    /\ \E throws \in (IF audioContext = "closed" THEN BOOLEAN ELSE {FALSE}) :
         IF throws
         THEN /\ connectFailed
              /\ UNCHANGED <<source, processor, isLiveConnected>>
         ELSE /\ activeSession' = "session"
              /\ IF audioContext # "null" /\ stream # "null"
                 THEN source' = "connected" /\ processor' = "connected"
                 ELSE UNCHANGED <<source, processor>>
              /\ connectPc' = "connected"
              /\ connectResolved
              /\ UNCHANGED isConnected
              /\ UNCHANGED <<ingestVars, controlVars, smoothVars, appVars, frameVars, demoVars>>
    /\ UNCHANGED <<socket, stream, audioContext, disconnected, chunks>>

\* sessionPromise rejects: the connection never opened
SessionRejected ==
    /\ connectPc = "session"
    /\ socket = "connecting"
    /\ socket' = "closed"
    /\ connectFailed
    /\ UNCHANGED <<stream, videoInterval, audioContext, source, processor,
                   disconnected, chunks, isLiveConnected>>

\* callbacks.onmessage(message)
OnMessage(msg) ==
    /\ socket = "open"
    /\ updates + numUpdates(msg) <= MaxUpdates
    /\ lastMessage' = msg
    /\ IF msg.toolCall = "none"
       THEN /\ sent' = <<>> /\ threw' = FALSE
            /\ UNCHANGED <<controlState, updates>>
       ELSE IF msg.toolCall = "empty"
            THEN /\ sent' = <<>> /\ threw' = TRUE
                 /\ UNCHANGED <<controlState, updates>>
            ELSE LET h == handleCalls([cs |-> controlState, sent |-> <<>>,
                                       updates |-> updates, threw |-> FALSE],
                                      msg.calls)
                 IN /\ controlState' = h.cs
                    /\ sent' = h.sent
                    /\ updates' = h.updates
                    /\ threw' = h.threw
    /\ UNCHANGED <<ingestVars, liveVars, smoothVars, appVars, frameVars, demoVars>>

\* callbacks.onclose
OnClose ==
    /\ socket = "open"
    /\ socket' = "closed"
    /\ isConnected' = FALSE
    /\ activeSession' = "null"
    /\ UNCHANGED <<connectPc, stream, videoInterval, audioContext, source,
                   processor, disconnected, chunks, isLiveConnected>>
    /\ UNCHANGED <<ingestVars, controlVars, smoothVars, appVars, frameVars, demoVars>>

\* callbacks.onerror; an error of the connection is followed by its close
OnError ==
    /\ socket = "open"
    /\ socket' = "closed"
    /\ isConnected' = FALSE
    /\ activeSession' = "null"
    /\ UNCHANGED <<connectPc, stream, videoInterval, audioContext, source,
                   processor, disconnected, chunks, isLiveConnected>>
    /\ UNCHANGED <<ingestVars, controlVars, smoothVars, appVars, frameVars, demoVars>>

\* the callback of the timer of startVideoStreaming: a frame of the video
\* is sent unless the client is not connected or has no session
VideoTick ==
    /\ videoInterval = "running"
    /\ chunks < MaxChunks
    /\ chunks' = IF isConnected /\ activeSession # "null" THEN chunks + 1 ELSE chunks
    /\ UNCHANGED <<connectPc, socket, activeSession, isConnected, stream, videoInterval,
                   audioContext, source, processor, disconnected, isLiveConnected>>
    /\ UNCHANGED <<ingestVars, controlVars, smoothVars, appVars, frameVars, demoVars>>

\* processor.onaudioprocess: a chunk of audio is sent unless the client is
\* not connected or has no session
OnAudioProcess ==
    /\ processor = "connected"
    /\ audioContext = "running"
    /\ chunks < MaxChunks
    /\ chunks' = IF isConnected /\ activeSession # "null" THEN chunks + 1 ELSE chunks
    /\ UNCHANGED <<connectPc, socket, activeSession, isConnected, stream, videoInterval,
                   audioContext, source, processor, disconnected, isLiveConnected>>
    /\ UNCHANGED <<ingestVars, controlVars, smoothVars, appVars, frameVars, demoVars>>

\* the cleanup of the effect: client.disconnect(), setIsLiveConnected(false)
Disconnect ==
    /\ connectPc # "init"
    /\ ~disconnected
    /\ disconnected' = TRUE
    /\ isConnected' = FALSE
    /\ videoInterval' = IF videoInterval = "running" THEN "cleared" ELSE videoInterval
    /\ source' = IF source # "null" THEN "disconnected" ELSE source
    /\ processor' = IF processor # "null" THEN "disconnected" ELSE processor
    /\ audioContext' = IF audioContext # "null" THEN "closed" ELSE audioContext
    /\ stream' = IF stream # "null" THEN "stopped" ELSE stream
    /\ socket' = IF activeSession # "null" THEN "closed" ELSE socket
    /\ activeSession' = "null"
    /\ isLiveConnected' = FALSE
    /\ UNCHANGED <<connectPc, chunks>>
    /\ UNCHANGED <<ingestVars, controlVars, smoothVars, appVars, frameVars, demoVars>>

NextControl ==
    \/ ConnectStart
    \/ GetUserMediaResolved
    \/ GetUserMediaRejected
    \/ PlayResolved
    \/ PlayRejected
    \/ OnOpen
    \/ SessionResolved
    \/ SessionRejected
    \/ \E msg \in Messages : OnMessage(msg)
    \/ OnClose
    \/ OnError
    \/ VideoTick
    \/ OnAudioProcess
    \/ Disconnect

SpecControl == InitControl /\ [][NextControl]_vars

-----------------------------------------------------------------------------
(* The smoothing callback alone: a run of updates that all carry one       *)
(* sample, from any control state in [0,1] x [0,1].                        *)

\* the values of a field the runs begin with and of the sample's fields
Grid == {literal(0, 1), literal(1, 10), literal(1, 2), literal(1, 1)}

\* enough updates for a run to come to rest
MaxSteps == Frac + 2

InitSmooth ==
    /\ start \in [expansion : Grid, tension : Grid]
    /\ sample \in [expansion : Grid, tension : Grid]
    /\ steps = 0
    /\ controlState = start
    /\ InitLiveClient /\ InitMessages
    /\ IdleIngest /\ IdleApp /\ IdleFrame /\ IdleDemo

\* (newState) => setControlState(prev => ...), called with the run's sample
ControlUpdate ==
    /\ steps < MaxSteps
    /\ controlState' = onControlUpdate(controlState, sample)
    /\ steps' = steps + 1
    /\ UNCHANGED <<start, sample, updates, lastMessage, sent, threw>>
    /\ UNCHANGED <<ingestVars, liveVars, appVars, frameVars, demoVars>>

NextSmooth == ControlUpdate

SpecSmooth == InitSmooth /\ [][NextSmooth]_vars

-----------------------------------------------------------------------------
(* parseQuineResult as a machine: one action per forEach callback          *)

closure == [nodesMap |-> nodesMap, links |-> links,
            randCalls |-> randCalls, thrown |-> FALSE]

\* the variables after processItem(item), called where the traversal then
\* continues at pc = nextPc
callProcessItem(item, nextPc) ==
    LET st == processItem(closure, item)
    IN /\ nodesMap' = st.nodesMap
       /\ links' = st.links
       /\ randCalls' = st.randCalls
       /\ pc' = IF st.thrown THEN "thrown" ELSE nextPc

InitIngest ==
    /\ isPayload(result)
    /\ pc = "start"
    /\ row = 0 /\ col = 0 /\ idx = 0
    /\ nodesMap = <<>>
    /\ links = <<>>
    /\ randCalls = 0
    /\ output = Undefined
    /\ InitLive /\ IdleSmooth /\ IdleApp /\ IdleFrame /\ IdleDemo

\* if (!result || !result.results) return { nodes: [], links: [] };
\* otherwise result.results.forEach is called
Begin ==
    /\ pc = "start"
    /\ IF Falsy(result) \/ Falsy(Get(result, "results"))
       THEN /\ pc' = "returned"
            /\ output' = [nodes |-> <<>>, links |-> <<>>]
            /\ row' = row
       ELSE /\ pc' = IF isArray(Get(result, "results")) THEN "rows" ELSE "thrown"
            /\ output' = output
            /\ row' = 1
    /\ UNCHANGED <<result, col, idx, nodesMap, links, randCalls>>
    /\ UNCHANGED <<liveVars, controlVars, smoothVars, appVars, frameVars, demoVars>>

theRows == Get(result, "results").a
theRow == theRows[row]
theCol == theRow.a[col]

\* result.results.forEach((row) => row.forEach(...)): the next row
NextRow ==
    /\ pc = "rows"
    /\ IF row > Len(theRows)
       THEN pc' = "done" /\ col' = col
       ELSE /\ pc' = IF isArray(theRow) THEN "cols" ELSE "thrown"
            /\ col' = 1
    /\ UNCHANGED <<result, row, idx, nodesMap, links, randCalls, output>>
    /\ UNCHANGED <<liveVars, controlVars, smoothVars, appVars, frameVars, demoVars>>

\* row.forEach((col) => ...): the next column
NextCol ==
    /\ pc = "cols"
    /\ IF col > Len(theRow.a)
       THEN /\ pc' = "rows" /\ row' = row + 1
            /\ UNCHANGED <<col, idx, nodesMap, links, randCalls>>
       ELSE IF isArray(theCol)
            THEN /\ pc' = "items" /\ idx' = 1
                 /\ UNCHANGED <<row, col, nodesMap, links, randCalls>>
            ELSE /\ callProcessItem(theCol, "cols")
                 /\ col' = col + 1
                 /\ UNCHANGED <<row, idx>>
    /\ UNCHANGED <<result, output>>
    /\ UNCHANGED <<liveVars, controlVars, smoothVars, appVars, frameVars, demoVars>>

\* col.forEach(processItem): the next element of an array-valued column
NextItem ==
    /\ pc = "items"
    /\ IF idx > Len(theCol.a)
       THEN /\ pc' = "cols" /\ col' = col + 1
            /\ UNCHANGED <<idx, nodesMap, links, randCalls>>
       ELSE /\ callProcessItem(theCol.a[idx], "items")
            /\ idx' = idx + 1
            /\ col' = col
    /\ UNCHANGED <<result, row, output>>
    /\ UNCHANGED <<liveVars, controlVars, smoothVars, appVars, frameVars, demoVars>>

\* return { nodes: Array.from(nodesMap.values()), links };
Return ==
    /\ pc = "done"
    /\ pc' = "returned"
    /\ output' = [nodes |-> nodesMap, links |-> links]
    /\ UNCHANGED <<result, row, col, idx, nodesMap, links, randCalls>>
    /\ UNCHANGED <<liveVars, controlVars, smoothVars, appVars, frameVars, demoVars>>

NextIngest == Begin \/ NextRow \/ NextCol \/ NextItem \/ Return

SpecIngest == InitIngest /\ [][NextIngest]_vars

\* the machine ends as parseQuineResult, taken as one call, does
ParseAgrees ==
    /\ pc = "returned" => /\ ~parseQuineResult(result).thrown
                          /\ output = parseQuineResult(result).data
    /\ pc = "thrown" => parseQuineResult(result).thrown

-----------------------------------------------------------------------------
(* App: the graph data, the calls of handleExecuteQuery, and what the      *)
(* scene is rendered from. A handler of App runs to its end, or to its     *)
(* next await, before any other handler or frame callback runs.            *)

\* (a variant of generateDemoGraph that keeps the links of a node to itself)
generateDemoGraph_SelfLinks(count, targets) ==
    LET name(i) == "node-" \o ToString(i)
    IN [nodes |-> [i \in 1..count |->
                     [id |-> name(i - 1),
                      x |-> 5 * (i - 1) + 1, y |-> 5 * (i - 1) + 2, z |-> 5 * (i - 1) + 3,
                      val |-> 5 * (i - 1) + 4, group |-> 5 * (i - 1) + 5]],
        links |-> [k \in 1..count |->
                     [source |-> name(k - 1), target |-> name(targets[k])]]]

\* generateDemoGraph(count), the i-th link drawing the target targets[i].
\* The numbers of a node (x, y, z, val, group) are functions of the outcomes
\* of five Math.random() calls; the fields hold the numbers of these calls.
generateDemoGraph(count, targets) ==
    LET name(i) == "node-" \o ToString(i)
        linked == SelectSeq([i \in 1..count |-> i - 1], LAMBDA i : targets[i + 1] # i)
    IN [nodes |-> [i \in 1..count |->
                     [id |-> name(i - 1),
                      x |-> 5 * (i - 1) + 1, y |-> 5 * (i - 1) + 2, z |-> 5 * (i - 1) + 3,
                      val |-> 5 * (i - 1) + 4, group |-> 5 * (i - 1) + 5]],
        links |-> [k \in 1..Len(linked) |->
                     [source |-> name(linked[k]), target |-> name(targets[linked[k] + 1])]]]

\* data.nodes.map(n => new THREE.Vector3(n.x, n.y, n.z))
positionsOf(data) == [i \in 1..Len(data.nodes) |-> <<data.nodes[i].x, data.nodes[i].y, data.nodes[i].z>>]

\* (a variant of Particles whose memo is never computed again)
Particles_StaleMemo(prev, data, cs) ==
    [data |-> data,
     originalPositions |-> IF prev # Undefined THEN prev.originalPositions
                           ELSE positionsOf(data),
     controlState |-> cs]

\* (a variant of Particles that keeps the tension it was rendered with before)
Particles_Torn(prev, data, cs) ==
    [data |-> data,
     originalPositions |-> positionsOf(data),
     controlState |-> IF prev # Undefined
                      THEN [cs EXCEPT !.tension = prev.controlState.tension]
                      ELSE cs]

\* Particles({ data, controlState }) rendered after the rendering prev: its
\* props and useMemo(() => ..., [data])
Particles(prev, data, cs) ==
    [data |-> data,
     originalPositions |-> IF prev # Undefined /\ prev.data = data
                           THEN prev.originalPositions
                           ELSE positionsOf(data),
     controlState |-> cs]

\* the bodies response.json() may give
Bodies ==
    {Obj([results |-> Arr(<<Arr(<<Obj([id |-> Num(1), labels |-> Arr(<<Str("A")>>)]),
                                  Obj([start |-> Num(1), end |-> Str("2")])>>)>>)]),
     Obj([results |-> Arr(<<>>)]),
     Obj([results |-> Arr(<<Null>>)])}

\* the message of the error fetch rejects with
FetchErrors == {"Failed to fetch"}

\* (a variant of the catch block that keeps no message but the fetch hint)
errorMessage_Dropped(message, isHttps) ==
    IF message = "Failed to fetch"
    THEN "Connection failed to http://localhost:8082/api/v1/query/cypher."
    ELSE ""

\* the catch block of executeQuineQuery: the message of the Error it throws
errorMessage(message, isHttps) ==
    IF message = "Failed to fetch"
    THEN "Connection failed to http://localhost:8082/api/v1/query/cypher."
           \o (IF isHttps
               THEN " (Blocked: Mixed Content. Cannot access HTTP Quine from HTTPS App. Use ngrok or serve App via HTTP)"
               ELSE " (Check: Is Quine running? Is CORS enabled? Is the port correct?)")
    ELSE message

InitApp ==
    /\ \E targets \in [1..DemoCount -> 0..(DemoCount - 1)] :
         graphData = generateDemoGraph(DemoCount, targets)
    /\ randomCalls = 6 * DemoCount
    /\ error = Null
    /\ requests = [r \in 1..MaxRequests |-> [pc |-> "idle", origin |-> "none"]]
    /\ completed = <<>>
    /\ rendered = Particles(Undefined, graphData, InitControlState)
    /\ seen = Undefined
    /\ start = InitControlState
    /\ sample \in {[expansion |-> literal(1, 1), tension |-> literal(1, 1)]}
    /\ steps = 0
    /\ controlState = InitControlState
    /\ InitLiveClient /\ InitMessages
    /\ IdleIngest /\ IdleFrame /\ IdleDemo

inFlight(r) == requests[r].pc \in {"fetch", "text", "json"}

\* (a variant of the call that also sets the control state back)
issue_ResetsControl(r, origin) ==
    /\ error' = Null
    /\ requests' = [requests EXCEPT ![r] = [pc |-> "fetch", origin |-> origin]]
    /\ controlState' = InitControlState
    /\ UNCHANGED <<graphData, completed, rendered, seen, randomCalls>>
    /\ UNCHANGED <<updates, lastMessage, sent, threw>>
    /\ UNCHANGED <<ingestVars, liveVars, smoothVars, frameVars, demoVars>>

\* handleExecuteQuery up to its await: setError(null), and fetch is called
issue(r, origin) ==
    /\ error' = Null
    /\ requests' = [requests EXCEPT ![r] = [pc |-> "fetch", origin |-> origin]]
    /\ UNCHANGED <<graphData, completed, rendered, seen, randomCalls>>
    /\ UNCHANGED <<ingestVars, liveVars, controlVars, smoothVars, frameVars, demoVars>>

\* handleStart and the effect it sets off: the automatic load
HandleStart ==
    /\ requests[1].pc = "idle"
    /\ issue(1, "auto")

\* UIOverlay's handleExecute: the user runs a query. The overlay is there
\* once the app has started, its button disabled while a run of the user's
\* is executing.
HandleExecute ==
    \E r \in 2..MaxRequests :
      /\ requests[1].pc # "idle"
      /\ requests[r].pc = "idle"
      /\ \A q \in 2..MaxRequests : q < r => requests[q].pc = "done"
      /\ issue(r, "user")

\* (a variant of the catch block that also empties the graph)
fail_ClearsGraph(r, kind, message) ==
    /\ error' = Str(message)
    /\ requests' = [requests EXCEPT ![r].pc = "done"]
    /\ completed' = Append(completed, [req |-> r, kind |-> kind,
                                       body |-> Undefined, data |-> Undefined])
    /\ graphData' = [nodes |-> <<>>, links |-> <<>>]
    /\ UNCHANGED <<rendered, seen, randomCalls>>
    /\ UNCHANGED <<ingestVars, liveVars, controlVars, smoothVars, frameVars, demoVars>>

\* executeQuineQuery rejects with Error(message); the catch block of
\* handleExecuteQuery
fail(r, kind, message) ==
    /\ error' = Str(message)
    /\ requests' = [requests EXCEPT ![r].pc = "done"]
    /\ completed' = Append(completed, [req |-> r, kind |-> kind,
                                       body |-> Undefined, data |-> Undefined])
    /\ UNCHANGED <<graphData, rendered, seen, randomCalls>>
    /\ UNCHANGED <<ingestVars, liveVars, controlVars, smoothVars, frameVars, demoVars>>

\* fetch rejects
FetchRejected(r) ==
    /\ requests[r].pc = "fetch"
    /\ \E message \in FetchErrors : \E isHttps \in BOOLEAN :
         fail(r, "transport", errorMessage(message, isHttps))

\* fetch resolves with a response, ok or not
FetchResolved(r) ==
    /\ requests[r].pc = "fetch"
    /\ \E ok \in BOOLEAN :
         requests' = [requests EXCEPT ![r].pc = IF ok THEN "json" ELSE "text"]
    /\ UNCHANGED <<graphData, error, completed, rendered, seen, randomCalls>>
    /\ UNCHANGED <<ingestVars, liveVars, controlVars, smoothVars, frameVars, demoVars>>

\* response.text() of a response that is not ok resolves
TextResolved(r) ==
    /\ requests[r].pc = "text"
    /\ \E text \in {"", "Bad query"} :
         fail(r, "transport",
              errorMessage("Quine API Error 400: "
                             \o (IF text = "" THEN "Bad Request" ELSE text), FALSE))

\* response.text() rejects
TextRejected(r) ==
    /\ requests[r].pc = "text"
    /\ fail(r, "transport", errorMessage("The network connection was lost.", FALSE))

\* response.json() rejects: the body is no JSON
JsonRejected(r) ==
    /\ requests[r].pc = "json"
    /\ fail(r, "json", errorMessage("Unexpected end of JSON input", FALSE))

\* (a variant that sets the graph of a call even when it has no nodes)
complete_SwapsEmpty(r, json, parsed) ==
    /\ IF parsed.thrown
       THEN /\ error' = Str("Cannot read properties of null (reading 'forEach')")
            /\ completed' = Append(completed, [req |-> r, kind |-> "parse",
                                               body |-> json, data |-> Undefined])
            /\ UNCHANGED graphData
       ELSE /\ graphData' = parsed.data
            /\ completed' = Append(completed,
                               [req |-> r,
                                kind |-> IF Len(parsed.data.nodes) = 0 THEN "empty" ELSE "model",
                                body |-> json, data |-> parsed.data])
            /\ error' = IF Len(parsed.data.nodes) = 0
                        THEN Str("Query returned 0 nodes. Check if your graph is empty or the query logic.")
                        ELSE error

\* (a variant that drops the result of a call when a later call was made)
complete_DropStale(r, json, parsed) ==
    /\ IF parsed.thrown
       THEN /\ error' = Str("Cannot read properties of null (reading 'forEach')")
            /\ completed' = Append(completed, [req |-> r, kind |-> "parse",
                                               body |-> json, data |-> Undefined])
            /\ UNCHANGED graphData
       ELSE IF Len(parsed.data.nodes) = 0
            THEN /\ error' = Str("Query returned 0 nodes. Check if your graph is empty or the query logic.")
                 /\ completed' = Append(completed, [req |-> r, kind |-> "empty",
                                                    body |-> json, data |-> parsed.data])
                 /\ UNCHANGED graphData
            ELSE /\ graphData' = IF \E q \in (r + 1)..MaxRequests : requests[q].pc # "idle"
                                 THEN graphData ELSE parsed.data
                 /\ completed' = Append(completed, [req |-> r, kind |-> "model",
                                                    body |-> json, data |-> parsed.data])
                 /\ UNCHANGED error

\* handleExecuteQuery once parseQuineResult(result) has ended: the catch
\* block, the warning on a graph of no nodes, or setGraphData(newData)
complete(r, json, parsed) ==
    /\ IF parsed.thrown
       THEN /\ error' = Str("Cannot read properties of null (reading 'forEach')")
            /\ completed' = Append(completed, [req |-> r, kind |-> "parse",
                                               body |-> json, data |-> Undefined])
            /\ UNCHANGED graphData
       ELSE IF Len(parsed.data.nodes) = 0
            THEN /\ error' = Str("Query returned 0 nodes. Check if your graph is empty or the query logic.")
                 /\ completed' = Append(completed, [req |-> r, kind |-> "empty",
                                                    body |-> json, data |-> parsed.data])
                 /\ UNCHANGED graphData
            ELSE /\ graphData' = parsed.data
                 /\ completed' = Append(completed, [req |-> r, kind |-> "model",
                                                    body |-> json, data |-> parsed.data])
                 /\ UNCHANGED error

\* response.json() resolves; the rest of handleExecuteQuery
JsonResolved(r) ==
    /\ requests[r].pc = "json"
    /\ \E json \in Bodies :
         LET parsed == parseQuineResultAt(json, randomCalls)
         IN /\ randomCalls' = parsed.randCalls
            /\ requests' = [requests EXCEPT ![r].pc = "done"]
            /\ complete(r, json, parsed)
    /\ UNCHANGED <<rendered, seen>>
    /\ UNCHANGED <<ingestVars, liveVars, controlVars, smoothVars, frameVars, demoVars>>

\* the timer of the error effect: setError(null) 8 seconds after an error
ErrorTimeout ==
    /\ error # Null
    /\ error' = Null
    /\ UNCHANGED <<graphData, requests, completed, rendered, seen, randomCalls>>
    /\ UNCHANGED <<ingestVars, liveVars, controlVars, smoothVars, frameVars, demoVars>>

\* React renders App anew after a state change: GraphScene and Particles
\* get the graphData and controlState of that moment
Render ==
    /\ rendered' = Particles(rendered, graphData, controlState)
    /\ rendered' # rendered
    /\ UNCHANGED <<graphData, error, requests, completed, seen, randomCalls>>
    /\ UNCHANGED <<ingestVars, liveVars, controlVars, smoothVars, frameVars, demoVars>>

\* the useFrame callback of Particles, as last rendered, runs
Tick ==
    /\ seen' = rendered
    /\ seen' # seen
    /\ UNCHANGED <<graphData, error, requests, completed, rendered, randomCalls>>
    /\ UNCHANGED <<ingestVars, liveVars, controlVars, smoothVars, frameVars, demoVars>>

\* a gesture sample arrives and the smoothing callback is called
Gesture ==
    /\ steps < MaxUpdates
    /\ ControlUpdate

NextApp ==
    \/ HandleStart
    \/ HandleExecute
    \/ \E r \in 1..MaxRequests : FetchRejected(r)
    \/ \E r \in 1..MaxRequests : FetchResolved(r)
    \/ \E r \in 1..MaxRequests : TextResolved(r)
    \/ \E r \in 1..MaxRequests : TextRejected(r)
    \/ \E r \in 1..MaxRequests : JsonRejected(r)
    \/ \E r \in 1..MaxRequests : JsonResolved(r)
    \/ ErrorTimeout
    \/ Render
    \/ Tick
    \/ Gesture

SpecApp == InitApp /\ [][NextApp]_vars

-----------------------------------------------------------------------------
(* The useFrame callback of Particles on one node: dummy.position and      *)
(* dummy.scale from the node, the control state and the clock.             *)

X == 1
Y == 2
Z == 3
Axes == {X, Y, Z}

\* THREE.Vector3: length(), normalize(), multiplyScalar(s), add(v)
length(v) == sqrt(add(add(mul(v[X], v[X]), mul(v[Y], v[Y])), mul(v[Z], v[Z])))

\* (a variant of normalize that divides by the length even when it is 0)
normalize_NoGuard(v) == [a \in Axes |-> div(v[a], length(v))]

\* normalize() is divideScalar(this.length() || 1)
normalize(v) ==
    LET l == IF length(v) = literal(0, 1) \/ isNaN(length(v)) THEN literal(1, 1)
             ELSE length(v)
    IN [a \in Axes |-> div(v[a], l)]

multiplyScalar(v, k) == [a \in Axes |-> mul(v[a], k)]
addVec(v, w) == [a \in Axes |-> add(v[a], w[a])]

\* original.clone().normalize().multiplyScalar(expansion * 20)
expandVec(original, expansion) ==
    multiplyScalar(normalize(original), mul(expansion, literal(20, 1)))

\* (a variant of the jitter test that jitters at any tension above 0)
jitters_AboveZero(tension) == gt(tension, literal(0, 1))

\* tension > 0.1
jitters(tension) == gt(tension, literal(1, 10))

\* (a variant of the pulse test that pulses from 0.5 on)
pulses_FromHalf(tension) == gt(tension, literal(1, 2)) \/ tension = literal(1, 2)

\* tension > 0.5
pulses(tension) == gt(tension, literal(1, 2))

\* original.clone().add(expandVec)
expanded(original, expansion) == addVec(original, expandVec(original, expansion))

\* (a variant of the jitter that is not centred: pos.x += Math.random() * tension)
jitter_OffCentre(pos, tension, rs) ==
    [a \in Axes |-> add(pos[a], mul(rs[a], tension))]

\* pos.x += (Math.random() - 0.5) * tension, and so for y and z, rs being
\* the outcomes of the three Math.random() calls
jitter(pos, tension, rs) ==
    [a \in Axes |-> add(pos[a], mul(sub(rs[a], literal(1, 2)), tension))]

\* the outcomes of the Math.random() calls of one node in one frame: none
\* is made unless the node jitters
draws(tension, outcomes) ==
    IF jitters(tension) THEN [Axes -> outcomes] ELSE {<<>>}

\* Math.sin(time * 5) at the times the clock is read at: time * 5 is the
\* phase-th of 0, pi/6, 3pi/2
Phases == 1..3
sin(phase) == <<literal(0, 1), literal(1, 2), literal(-1, 1)>>[phase]

\* 1 + Math.sin(time * 5) * (tension * 0.3)
pulse(tension, phase) == add(literal(1, 1), mul(sin(phase), mul(tension, literal(3, 10))))

\* node.val || 1
orOne(val) == IF isNaN(val) \/ val = literal(0, 1) THEN literal(1, 1) ELSE val

\* (node.val || 1) * (1 + expansion) * (tension > 0.5 ? pulse : 1)
scale(val, expansion, tension, phase) ==
    mul(mul(orOne(val), add(literal(1, 1), expansion)),
        IF pulses(tension) THEN pulse(tension, phase) ELSE literal(1, 1))

\* the original positions of the nodes a frame is followed for
Originals ==
    {<<literal(0, 1), literal(0, 1), literal(0, 1)>>,
     <<literal(2, 1), literal(0, 1), literal(0, 1)>>,
     <<literal(-2, 1), literal(1, 1), literal(2, 1)>>,
     <<literal(1, 1), literal(1, 1), literal(0, 1)>>}

\* val: 1 of a node, 0.5 of a placeholder, up to 2.5 in the demo graph
Vals == {literal(DefaultVal, 2), literal(PlaceholderVal, 2), literal(2, 1)}

Expansions == {literal(0, 1), literal(4, 5), literal(1, 1)}
Tensions == {literal(0, 1), literal(1, 10), literal(1, 2), literal(3, 5), literal(1, 1)}

\* the outcomes of Math.random(), in [0, 1)
Randoms == {literal(0, 1), literal(3, 4)}

InitFrame ==
    /\ frameIn \in [original : Originals, val : Vals,
                    expansion : Expansions, tension : Tensions, phase : {1}]
    /\ frameOut = [frames |-> 0, position |-> Undefined, scale |-> Undefined]
    /\ InitLive
    /\ IdleIngest /\ IdleSmooth /\ IdleApp /\ IdleDemo

\* the useFrame callback runs: the clock is read, then position and scale
\* of the node are set
Frame ==
    /\ frameOut.frames < MaxFrames
    /\ LET pos == expanded(frameIn.original, frameIn.expansion)
       IN \E phase \in Phases : \E rs \in draws(frameIn.tension, Randoms) :
            /\ frameIn' = [frameIn EXCEPT !.phase = phase]
            /\ frameOut' =
                 [frames |-> frameOut.frames + 1,
                  position |-> IF rs = <<>> THEN pos ELSE jitter(pos, frameIn.tension, rs),
                  scale |-> scale(frameIn.val, frameIn.expansion, frameIn.tension, phase)]
    /\ UNCHANGED <<ingestVars, liveVars, controlVars, smoothVars, appVars, demoVars>>

NextFrame == Frame

SpecFrame == InitFrame /\ [][NextFrame]_vars

-----------------------------------------------------------------------------
(* generateDemoGraph alone: one call, for a count and the outcomes of the  *)
(* Math.random() calls its links are drawn with.                           *)

\* Largest count a call is followed for.
MaxCount == 3

\* Math.floor of a number that is not below 0
floor(a) == a.n \div Den

\* Math.floor(Math.random() * count), r being the outcome of Math.random()
targetOf(r, count) == floor(mul(r, Num(count * Den)))

\* the largest number below 1
belowOne == Num(Den - 2 ^ (Frac - Precision))

\* the outcomes of Math.random() a target is drawn with, in [0, 1)
DemoRandoms == {literal(0, 1), literal(1, 4), literal(1, 2), literal(3, 4), belowOne}

InitDemo ==
    /\ demoArgs \in UNION {{[count |-> n, outcomes |-> o] : o \in [1..n -> DemoRandoms]} :
                           n \in 0..MaxCount}
    /\ demoGraph = Undefined
    /\ InitLive
    /\ IdleIngest /\ IdleSmooth /\ IdleApp /\ IdleFrame

\* generateDemoGraph(count) is called and returns
Generate ==
    /\ demoGraph = Undefined
    /\ demoGraph' = generateDemoGraph(demoArgs.count,
                       [i \in 1..demoArgs.count |->
                          targetOf(demoArgs.outcomes[i], demoArgs.count)])
    /\ UNCHANGED demoArgs
    /\ UNCHANGED <<ingestVars, liveVars, controlVars, smoothVars, appVars, frameVars>>

NextDemo == Generate

SpecDemo == InitDemo /\ [][NextDemo]_vars

-----------------------------------------------------------------------------
(* What the specification says about a raw result, stated on the payload   *)
(* itself: the places of its items and their kinds.                        *)

hasRows == result.t = "object" /\ "results" \in DOMAIN result.f
              /\ result.f.results.t = "array"

\* <<r, c, k>>: the item is column c of row r (k = 0), or element k of the
\* array held by that column
Places ==
    IF ~hasRows THEN {}
    ELSE LET rs == result.f.results.a
         IN {p \in (1..MaxSize) \X (1..MaxSize) \X (0..MaxSize) :
               /\ p[1] <= Len(rs)
               /\ rs[p[1]].t = "array"
               /\ p[2] <= Len(rs[p[1]].a)
               /\ LET c == rs[p[1]].a[p[2]]
                  IN IF c.t = "array" THEN p[3] \in 1..Len(c.a) ELSE p[3] = 0}

itemAt(p) ==
    LET c == result.f.results.a[p[1]].a[p[2]]
    IN IF p[3] = 0 THEN c ELSE c.a[p[3]]

\* rows in sequence, then columns in sequence, then the items of an array
before(p, q) ==
    \/ p[1] < q[1]
    \/ p[1] = q[1] /\ p[2] < q[2]
    \/ p[1] = q[1] /\ p[2] = q[2] /\ p[3] < q[3]

RECURSIVE inOrder(_)
inOrder(S) ==
    IF S = {} THEN <<>>
    ELSE LET m == CHOOSE p \in S : \A q \in S \ {p} : before(p, q)
         IN <<m>> \o inOrder(S \ {m})

nodeLike(v) == v.t = "object" /\ {"id", "labels"} \subseteq DOMAIN v.f
relLike(v) == v.t = "object" /\ {"start", "end"} \subseteq DOMAIN v.f

NodePlaces == {p \in Places : nodeLike(itemAt(p))}
RelPlaces == {p \in Places : relLike(itemAt(p))}

\* the ids an item shows: as a node, and as the endpoints of a relationship
nodeIdOf(v) == IF nodeLike(v) THEN {String(v.f.id)} ELSE {}
endIdsOf(v) == IF relLike(v) THEN {String(v.f.start), String(v.f.end)} ELSE {}

\* the first place at which id is sighted
firstPlace(id) ==
    CHOOSE p \in Places :
        /\ id \in nodeIdOf(itemAt(p)) \cup endIdsOf(itemAt(p))
        /\ \A q \in Places :
             id \in nodeIdOf(itemAt(q)) \cup endIdsOf(itemAt(q)) => ~before(q, p)

idsOf(nodes) == {nodes[i].id : i \in 1..Len(nodes)}
entriesOf(nodes, id) == {i \in 1..Len(nodes) : nodes[i].id = id}
isPlaceholder(n) == n.group = Str("Unknown") /\ n.val = PlaceholderVal /\ 2 * n.val = DefaultVal

returned == pc = "returned"

\* the item whose processItem call has just completed, if any
lastItem ==
    IF pc = "items" /\ idx > 1 THEN theCol.a[idx - 1]
    ELSE IF pc = "cols" /\ col > 1 /\ ~isArray(theRow.a[col - 1]) THEN theRow.a[col - 1]
    ELSE Undefined

-----------------------------------------------------------------------------
(* Claims on parseQuineResult, under SpecIngest *)

\* C1: the returned model has pairwise distinct node ids and every link's
\* source and target is the id of one of its nodes.
C1_ValidModel ==
    returned =>
        /\ \A i, j \in 1..Len(output.nodes) :
             i # j => output.nodes[i].id # output.nodes[j].id
        /\ \A i \in 1..Len(output.links) :
             /\ output.links[i].source \in idsOf(output.nodes)
             /\ output.links[i].target \in idsOf(output.nodes)

\* C1 witness: a returned model holding links, a placeholder and a full node.
C1_Witness ==
    /\ returned
    /\ Len(output.links) >= 2
    /\ \E i, j \in 1..Len(output.nodes) :
         isPlaceholder(output.nodes[i]) /\ output.nodes[j].val = DefaultVal

\* C2 (as claimed): whenever results is a sequence, whatever its rows, columns
\* and items are, the call does not throw, and a payload holding only
\* unrecognized items yields no node and no link.
C2_NeverThrows ==
    hasRows =>
        /\ pc # "thrown"
        /\ (returned /\ NodePlaces = {} /\ RelPlaces = {}
              => output = [nodes |-> <<>>, links |-> <<>>])

\* C3: a null or undefined input, an input without results and an input with
\* an empty results sequence all return exactly {nodes: [], links: []}: the
\* call never throws on them, never adds a node or a link, and always goes on
\* to return.
C3_EmptyInput ==
    (Falsy(result) \/ ~In("results", result) \/ Get(result, "results") = Arr(<<>>)) =>
        /\ pc # "thrown"
        /\ nodesMap = <<>> /\ links = <<>>
        /\ (returned => output = [nodes |-> <<>>, links |-> <<>>])
        /\ (~returned => ENABLED NextIngest)

\* C3 witness: the call has returned the empty model for {results: []}.
C3_Witness ==
    /\ returned
    /\ result = Obj([results |-> Arr(<<>>)])
    /\ output = [nodes |-> <<>>, links |-> <<>>]

\* C4: in every step of a pass, each id that has an entry keeps exactly one
\* entry, with the same group and val.
C4_FirstWriteWins ==
    [][\A i \in 1..Len(nodesMap) :
          LET e == entriesOf(nodesMap', nodesMap[i].id)
          IN /\ Cardinality(e) = 1
             /\ \A j \in e : /\ nodesMap'[j].group = nodesMap[i].group
                             /\ nodesMap'[j].val = nodesMap[i].val]_vars

\* C4 witness: a node-like item with labels has just been processed and its
\* id still has the placeholder a relationship created earlier.
C4_Witness ==
    /\ nodeLike(lastItem)
    /\ ~relLike(lastItem)
    /\ nodeGroup(lastItem) # Str("Default")
    /\ \E i \in 1..Len(nodesMap) :
         nodesMap[i].id = String(lastItem.f.id) /\ isPlaceholder(nodesMap[i])

\* C5: in the returned model, an id whose first sighting is the endpoint of a
\* relationship-like item (in particular an id that never appears as a
\* node-like item) has exactly one node, of group 'Unknown' and val 0.5, half
\* the default val.
C5_Placeholder ==
    returned =>
        \A p \in RelPlaces : \A id \in endIdsOf(itemAt(p)) :
            (\A q \in NodePlaces :
                id \in nodeIdOf(itemAt(q)) => before(p, q))
            => /\ Cardinality(entriesOf(output.nodes, id)) = 1
               /\ \A i \in entriesOf(output.nodes, id) : isPlaceholder(output.nodes[i])

\* C5 witness: a relationship-like item names an endpoint that no node-like
\* item of the payload has, and the returned model holds its placeholder.
C5_Witness ==
    /\ returned
    /\ \E p \in RelPlaces :
         LET id == String(itemAt(p).f.end)
         IN /\ \A q \in NodePlaces : id \notin nodeIdOf(itemAt(q))
            /\ \E i \in 1..Len(output.nodes) :
                 output.nodes[i].id = id /\ isPlaceholder(output.nodes[i])

\* the links the specification expects: one per relationship-like item, in
\* the order of the places
expectedLinks ==
    LET ps == inOrder(RelPlaces)
    IN [i \in 1..Len(ps) |->
          [source |-> String(itemAt(ps[i]).f.start),
           target |-> String(itemAt(ps[i]).f.end)]]

\* C6: the returned link list holds exactly one link per relationship-like
\* item occurrence, repeated ones included, in traversal order (rows, then
\* columns, then the items of an array-valued column).
C6_LinksInOrder ==
    returned /\ hasRows => output.links = expectedLinks

\* C6 witness: a returned model of three links in which the same relationship
\* occurs twice and a different one stands before, between or after them.
C6_Witness ==
    /\ returned
    /\ Len(output.links) = 3
    /\ \E i, j, k \in 1..3 :
         /\ i < j /\ k \notin {i, j}
         /\ output.links[i] = output.links[j]
         /\ output.links[k] # output.links[i]

\* the items of the payload in traversal order
flatItems ==
    LET ps == inOrder(Places)
    IN [i \in 1..Len(ps) |-> itemAt(ps[i])]

Perms(n) == {f \in [1..n -> 1..n] : \A i, j \in 1..n : i # j => f[i] # f[j]}

\* parseQuineResult({results: [items]}) for items that are no arrays
RECURSIVE processAll(_, _)
processAll(st, items) ==
    IF items = <<>> \/ st.thrown THEN st
    ELSE processAll(processItem(st, Head(items)), Tail(items))

parseOneRow(items) ==
    processAll([nodesMap |-> <<>>, links |-> <<>>,
                randCalls |-> 0, thrown |-> FALSE], items)

\* what the call does on each one-row payload holding the items of the
\* payload in some order
reorderings ==
    LET its == flatItems
    IN {parseOneRow([i \in 1..Len(its) |-> its[f[i]]]) : f \in Perms(Len(its))}

contentOf(nodes) ==
    {[id |-> nodes[i].id, group |-> nodes[i].group, val |-> nodes[i].val] :
        i \in 1..Len(nodes)}

count(ls, l) == Cardinality({i \in 1..Len(ls) : ls[i] = l})

C8_NodeSet ==
    returned /\ hasRows =>
        /\ idsOf(output.nodes) =
             UNION {nodeIdOf(itemAt(p)) \cup endIdsOf(itemAt(p)) : p \in Places}
        /\ \A i \in 1..Len(output.nodes) :
             LET it == itemAt(firstPlace(output.nodes[i].id))
             IN output.nodes[i].id \in nodeIdOf(it) =>
                  /\ output.nodes[i].val = DefaultVal
                  /\ output.nodes[i].group =
                       IF it.f.labels.a = <<>> THEN Str("Default")
                       ELSE Head(it.f.labels.a)

\* C8 witness: two node-like items and one relationship between them have
\* returned exactly 2 nodes, both of val 1, one with a label and one without,
\* and 1 link.
C8_Witness ==
    /\ returned
    /\ Len(output.nodes) = 2 /\ Len(output.links) = 1
    /\ Cardinality(NodePlaces) = 2 /\ Cardinality(RelPlaces) = 1
    /\ \A i \in 1..2 : output.nodes[i].val = DefaultVal
    /\ {output.nodes[i].group : i \in 1..2} = {Str("A"), Str("Default")}
    /\ {output.links[1].source, output.links[1].target} = idsOf(output.nodes)

-----------------------------------------------------------------------------
(* Claims about the control path                                           *)

Fields == {"expansion", "tension"}

inUnit(v) == v.t = "number" /\ 0 <= v.n /\ v.n <= Den

\* the step is a call of onmessage
isOnMessage == UNCHANGED liveVars /\ UNCHANGED ingestVars

\* the message handled holds one updateGraphControl call with an args object
oneSample(msg) ==
    /\ msg.toolCall = "calls"
    /\ Len(msg.calls) = 1
    /\ isUpdate(msg.calls[1])
    /\ msg.calls[1].args.t = "object"

\* the sample's field k is missing, null or a string that is no number
invalidField(args, k) ==
    \/ ~In(k, args)
    \/ Get(args, k).t \in {"null", "undefined"}
    \/ Get(args, k).t = "string" /\ Get(args, k).s \notin {"", "1"}

\* C9: after any sequence of gesture-sample updates with numeric sample
\* values, also values below 0 or above 1, expansion and tension of the
\* control state both lie in [0,1]. (A field that is NaN is the matter of
\* C10 and is let through here.)
C9_AlwaysInUnit ==
    \A k \in Fields : isNaN(controlState[k]) \/ inUnit(controlState[k])

\* C10: for a gesture sample whose expansion or tension is missing, null or
\* non-numeric, and a state field in [0,1], the update moves that field
\* halfway toward 0, raises no exception, and leaves a number in [0,1].
C10_InvalidIsZero ==
    [][(isOnMessage /\ oneSample(lastMessage'))
         => \A k \in Fields :
              (invalidField(lastMessage'.calls[1].args, k) /\ inUnit(controlState[k]))
                => /\ ~threw'
                   /\ controlState'[k] = smooth(controlState[k], Num(0))
                   /\ inUnit(controlState'[k])]_vars

\* the same for a field that is missing or null only: this much the code does
MissingFieldIsZero ==
    [][(isOnMessage /\ oneSample(lastMessage'))
         => \A k \in Fields :
              (/\ \/ ~In(k, lastMessage'.calls[1].args)
                  \/ Get(lastMessage'.calls[1].args, k).t \in {"null", "undefined"}
               /\ inUnit(controlState[k]))
                => /\ ~threw'
                   /\ controlState'[k] = smooth(controlState[k], Num(0))
                   /\ inUnit(controlState'[k])]_vars

\* the field after n updates with the sample c, from the value s
RECURSIVE iterate(_, _, _)
iterate(s, c, n) == IF n = 0 THEN s ELSE iterate(smooth(s, c), c, n - 1)

between(x, a, b) == (a <= x /\ x <= b) \/ (b <= x /\ x <= a)

Zeros == [expansion |-> literal(0, 1), tension |-> literal(0, 1)]
Ones == [expansion |-> literal(1, 1), tension |-> literal(1, 1)]

\* C11 (as stated): after n updates with one in-range sample c from s0,
\* each field is at |s0 - c| * (1/2)^n from the sample's, and it never
\* equals the sample's field unless it began there.
C11_ExactHalving ==
    \A k \in Fields :
      /\ abs(start[k].n - sample[k].n) % (2 ^ steps) = 0
      /\ abs(start[k].n - sample[k].n) \div (2 ^ steps) = abs(controlState[k].n - sample[k].n)
      /\ start[k] # sample[k] => controlState[k] # sample[k]

\* C11 (amended): after n updates with one in-range sample, each field is
\* what n roundings of prev + (c - prev) * 0.5 give from that field's own
\* start and sample, never past the sample; from {0,0} with sample {1,1} it
\* is at exactly (1/2)^n from 1 for n up to the number of significant bits,
\* and equal to 1 after that.
C11_RoundedHalving ==
    /\ \A k \in Fields :
         /\ controlState[k] = iterate(start[k], sample[k], steps)
         /\ between(controlState[k].n, start[k].n, sample[k].n)
    /\ (start = Zeros /\ sample = Ones) =>
         \A k \in Fields :
           IF steps <= Precision
           THEN (Den - controlState[k].n) * (2 ^ steps) = Den
           ELSE controlState[k] = sample[k]

\* C11: a run from {0,0} with sample {1,1} has come to equal the sample
C11_Witness ==
    /\ start = Zeros /\ sample = Ones
    /\ steps = Precision + 1
    /\ controlState = Ones

-----------------------------------------------------------------------------
(* Claims about App and the scene                                          *)

\* a call of handleExecuteQuery ends in this step
completes == Len(completed') = Len(completed) + 1
ending == completed'[Len(completed')]

\* the indices of the calls that ended with a graph of some nodes
modelEnds == {i \in 1..Len(completed) : completed[i].kind = "model"}

DemoGraphs ==
    {generateDemoGraph(DemoCount, targets) : targets \in [1..DemoCount -> 0..(DemoCount - 1)]}

\* the graphs that App has had as its graphData
activeModels == DemoGraphs \cup {completed[i].data : i \in modelEnds}

\* the control state after n updates of the run
afterUpdates(n) == [k \in Fields |-> iterate(start[k], sample[k], n)]

\* C12: graphData changes only when a call of handleExecuteQuery ends with
\* a graph of some nodes; when executeQuineQuery rejects or parseQuineResult
\* throws, graphData stays as it was and the error message is set.
C12_SwapOnlyOnSuccess ==
    [][/\ graphData' # graphData =>
            completes /\ ending.kind = "model" /\ graphData' = ending.data
       /\ (completes /\ ending.kind \in {"transport", "json", "parse"}) =>
            /\ graphData' = graphData
            /\ error'.t = "string"]_vars

\* C12: a call has replaced the demo graph, and a later call has failed
\* and left that graph and an error message
C12_Witness ==
    /\ Len(completed) = 2
    /\ completed[1].kind = "model"
    /\ completed[2].kind \in {"transport", "parse"}
    /\ graphData = completed[1].data
    /\ error.t = "string"

\* C13: what Particles is rendered from, and what a frame callback reads,
\* is the demo graph or the whole GraphData of one call that has ended, with
\* the original positions of that same graph; the graph of a call that has
\* not ended is never among them.
C13_WholeSnapshot ==
    \A s \in {rendered, seen} \ {Undefined} :
      /\ s.data \in activeModels
      /\ s.originalPositions = positionsOf(s.data)

\* C13: while a call is in flight a frame callback reads the graph of an
\* earlier call
C13_Witness ==
    /\ \E r \in 1..MaxRequests : inFlight(r)
    /\ seen # Undefined
    /\ \E i \in modelEnds : seen.data = completed[i].data
    /\ seen.originalPositions = positionsOf(seen.data)

\* C14: graphData is the graph of the call that ended last among those
\* that ended with a graph of some nodes, whichever call was made first
\* (the demo graph when none has).
C14_LastCompletionWins ==
    IF modelEnds = {} THEN graphData \in DemoGraphs
    ELSE graphData = completed[CHOOSE i \in modelEnds : \A j \in modelEnds : j <= i].data

\* C14: the automatic load ended after the user's run, and its graph is
\* the active one
C14_Witness ==
    /\ Len(completed) = 2
    /\ completed[1].req = 2 /\ completed[1].kind = "model"
    /\ completed[2].req = 1 /\ completed[2].kind = "model"
    /\ completed[1].data # completed[2].data
    /\ graphData = completed[2].data

\* C15: a call whose fetch rejects or whose response is not ok ends with a
\* message of some length in the error state and is not made again; a call
\* whose response holds zero rows ends without executeQuineQuery rejecting
\* or parseQuineResult throwing.
C15_FailuresReported ==
    [][/\ (completes /\ ending.kind = "transport") =>
            /\ error'.t = "string" /\ error'.s # ""
            /\ requests'[ending.req].pc = "done"
       /\ (completes /\ ending.body = Obj([results |-> Arr(<<>>)])) =>
            ending.kind = "empty"
       /\ \A r \in 1..MaxRequests : requests[r].pc = "done" => requests'[r].pc = "done"]_vars

\* C15: one call has ended on a response that was not ok, another on a
\* response of zero rows
C15_Witness ==
    /\ \E i \in 1..Len(completed) : completed[i].kind = "transport"
    /\ \E i \in 1..Len(completed) :
         completed[i].kind = "empty" /\ completed[i].body = Obj([results |-> Arr(<<>>)])

\* C16: the control state Particles is rendered with, and the one a frame
\* callback reads, is the state after some whole number of updates: both
\* fields come from the same update.
C16_NoTornRead ==
    \A s \in {rendered, seen} \ {Undefined} :
      \E n \in 0..steps : s.controlState = afterUpdates(n)

\* C16: a frame callback has read the state of the first update while the
\* second update was already made
C16_Witness ==
    /\ steps = 2
    /\ seen # Undefined
    /\ seen.controlState = afterUpdates(1)
    /\ controlState = afterUpdates(2)
    /\ afterUpdates(1) # afterUpdates(2)

\* C17: no step of a call of handleExecuteQuery, whatever its outcome,
\* changes the control state, and no gesture sample changes graphData.
C17_Separate ==
    [][/\ requests' # requests => controlState' = controlState
       /\ steps' # steps => graphData' = graphData]_vars

\* C17: gesture samples have been applied, and calls have ended with a
\* graph and with a failure
C17_Witness ==
    /\ steps >= 1
    /\ controlState # InitControlState
    /\ \E i \in 1..Len(completed) : completed[i].kind = "model"
    /\ \E i \in 1..Len(completed) : completed[i].kind \in {"transport", "json", "parse", "empty"}

-----------------------------------------------------------------------------
(* Claims about the frame of one node                                      *)

Origin == <<literal(0, 1), literal(0, 1), literal(0, 1)>>

\* a frame has been rendered
framed == frameOut.frames >= 1

inRange(v) == ~isNaN(v) /\ 0 <= v.n /\ v.n <= Den

\* original + normalize(original) * expansion * 20
expectedPosition ==
    addVec(frameIn.original,
           multiplyScalar(normalize(frameIn.original),
                          mul(frameIn.expansion, literal(20, 1))))

\* val * (1 + expansion)
plainScale == mul(frameIn.val, add(literal(1, 1), frameIn.expansion))

\* C18: for a node whose original position is (0,0,0), an expansion in
\* [0,1] and a tension at or below the jitter threshold, the expand vector
\* is the zero vector and the position is exactly (0,0,0), no component NaN.
C18_OriginStays ==
    (/\ framed
     /\ frameIn.original = Origin
     /\ inRange(frameIn.expansion)
     /\ ~gt(frameIn.tension, literal(1, 10)))
      => /\ expandVec(frameIn.original, frameIn.expansion) = Origin
         /\ frameOut.position = Origin
         /\ \A a \in Axes : ~isNaN(frameOut.position[a])

\* C18: the node at the origin has been placed with expansion 0.8 and the
\* tension at the threshold
C18_Witness ==
    /\ framed
    /\ frameIn.original = Origin
    /\ frameIn.expansion = literal(4, 5)
    /\ frameIn.tension = literal(1, 10)
    /\ frameOut.position = Origin

\* C19: in every frame, whatever the clock, the position of a node is
\* original + normalize(original) * expansion * 20 when tension <= 0.1, the
\* same in every frame; when tension > 0.1 it is that plus, on each axis,
\* (r - 0.5) * tension for an outcome r of Math.random().
C19_JitterAboveThreshold ==
    framed =>
      IF gt(frameIn.tension, literal(1, 10))
      THEN \E rs \in [Axes -> Randoms] :
             frameOut.position = jitter(expectedPosition, frameIn.tension, rs)
      ELSE frameOut.position = expectedPosition

\* C19: a node off the origin has been placed twice with the tension at the
\* threshold and expansion 0.8
C19_Witness ==
    /\ frameOut.frames = 2
    /\ frameIn.original # Origin
    /\ frameIn.expansion = literal(4, 5)
    /\ frameIn.tension = literal(1, 10)
    /\ frameOut.position = expectedPosition
    /\ frameOut.position # frameIn.original

\* C20: in every frame the scale of a node is val * (1 + expansion) when
\* tension <= 0.5, tension exactly 0.5 among them, and that times
\* 1 + sin(5t) * tension * 0.3 when tension > 0.5.
C20_PulseAboveHalf ==
    framed =>
      frameOut.scale =
        IF gt(frameIn.tension, literal(1, 2))
        THEN mul(plainScale,
                 add(literal(1, 1),
                     mul(sin(frameIn.phase), mul(frameIn.tension, literal(3, 10)))))
        ELSE plainScale

\* C20: a node has been scaled with the tension at exactly 0.5 and the sine
\* not 0, and the pulse was not applied
C20_Witness ==
    /\ framed
    /\ frameIn.tension = literal(1, 2)
    /\ sin(frameIn.phase) # literal(0, 1)
    /\ frameOut.scale = plainScale

\* the other side of the threshold: a node has been scaled with tension 0.6
\* and the pulse was applied
PulseApplied ==
    /\ framed
    /\ frameIn.tension = literal(3, 5)
    /\ frameOut.scale # plainScale

-----------------------------------------------------------------------------
(* Claims about the scale under the control states the control path reaches *)

\* a number above 0
positive(v) == ~isNaN(v) /\ v.n > 0

\* C21: for every node of a model (val > 0) and every control state reached
\* through any sequence of gesture-sample updates, the scale computed at
\* every elapsed time is strictly positive.
C21_ScalePositive ==
    \A val \in Vals : \A phase \in Phases :
      positive(scale(val, controlState.expansion, controlState.tension, phase))

\* the same for the control states of a run of updates whose start and
\* sample are in [0,1] x [0,1]: this much holds
ScalePositiveInUnit ==
    \A val \in Vals : \A phase \in Phases :
      positive(scale(val, controlState.expansion, controlState.tension, phase))

-----------------------------------------------------------------------------
(* Claims about the demo graph                                             *)

\* the ids of the nodes of a graph
nodeIds(data) == {data.nodes[i].id : i \in 1..Len(data.nodes)}

\* C22: for every N >= 0 and every outcome of the random source,
\* generateDemoGraph(N) returns a valid graph: N nodes with pairwise
\* distinct ids, at most N links, every link's source and target the id of
\* a node of the graph, and no link from a node to itself.
C22_DemoValid ==
    demoGraph # Undefined =>
      /\ Len(demoGraph.nodes) = demoArgs.count
      /\ Cardinality(nodeIds(demoGraph)) = demoArgs.count
      /\ Len(demoGraph.links) <= demoArgs.count
      /\ \A k \in 1..Len(demoGraph.links) :
           /\ demoGraph.links[k].source \in nodeIds(demoGraph)
           /\ demoGraph.links[k].target \in nodeIds(demoGraph)
           /\ demoGraph.links[k].source # demoGraph.links[k].target

\* C22 (witness): a graph of MaxCount nodes has been returned, one node
\* having drawn itself with the largest outcome below 1 and so being left
\* without a link, the others linked
C22_Witness ==
    /\ demoGraph # Undefined
    /\ demoArgs.count = MaxCount
    /\ demoArgs.outcomes[MaxCount] = belowOne
    /\ Len(demoGraph.links) = MaxCount - 1

-----------------------------------------------------------------------------
(* Claims about the frames of one node, one after the other                *)

\* twice the distance of the position from original + expandVec, on axis a,
\* in units of 1 / Den
twiceOff(a) == 2 * abs(frameOut.position[a].n - expectedPosition[a].n)

\* the frame leaves the node, its original position and the control state
\* as they were
sameInputs ==
    /\ frameIn'.original = frameIn.original
    /\ frameIn'.val = frameIn.val
    /\ frameIn'.expansion = frameIn.expansion
    /\ frameIn'.tension = frameIn.tension

\* C23 (as stated): a frame leaves the graph, the original position of each
\* node and the control state unchanged, and after any number of earlier
\* frames each axis of the position is within 0.5 * tension of
\* original + expandVec.
C23_WithinHalfTension ==
    /\ [][sameInputs]_vars
    /\ [](framed => \A a \in Axes : twiceOff(a) <= frameIn.tension.n)

\* C23 (amended): the same, the position being within 0.5 * tension of
\* original + expandVec up to the rounding of the sum pos + jitter, which is
\* half the spacing of the floating-point numbers at the position.
C23_NoDrift ==
    /\ [][sameInputs]_vars
    /\ [](framed => \A a \in Axes :
            twiceOff(a) <= frameIn.tension.n + spacing(abs(frameOut.position[a].n)))

\* C23 (witness): a second frame has placed a node with jitter, and on one
\* axis the rounded sum is farther than 0.5 * tension from original + expandVec
C23_Witness ==
    /\ frameOut.frames = 2
    /\ jitters(frameIn.tension)
    /\ frameOut.position # expectedPosition
    /\ \E a \in Axes : twiceOff(a) > frameIn.tension.n

-----------------------------------------------------------------------------
(* Claims about the classification of an item                              *)

\* the step adds a node of the default val, as the node branch does
addsNode ==
    \E i \in (Len(nodesMap) + 1)..Len(nodesMap') : nodesMap'[i].val = DefaultVal

\* the step adds a link, as the relationship branch does
addsLink == Len(links') > Len(links)

\* the step adds nothing
addsNothing == nodesMap' = nodesMap /\ links' = links

\* the item the step calls processItem with, if it calls it
itemOfStep ==
    IF pc = "cols" /\ col <= Len(theRow.a) /\ ~isArray(theCol) THEN <<theCol>>
    ELSE IF pc = "items" /\ idx <= Len(theCol.a) THEN <<theCol.a[idx]>>
    ELSE <<>>

\* C25: each item is classified once, as node-like, relationship-like or
\* unrecognized: one item contributes one node or one link (with the
\* placeholders of its endpoints), never both, and an unrecognized item
\* contributes nothing.
C25_ClassifiedOnce ==
    [][/\ ~(addsNode /\ addsLink)
       /\ \A k \in 1..Len(itemOfStep) :
            (~nodeLike(itemOfStep[k]) /\ ~relLike(itemOfStep[k])) => addsNothing]_vars

-----------------------------------------------------------------------------
(* Claims about a query that gives no nodes                                *)

Warning == Str("Query returned 0 nodes. Check if your graph is empty or the query logic.")

\* C27: when a query succeeds and the parsed graph has no nodes, graphData
\* is not replaced (the graph before keeps being rendered) and a warning is
\* stored as the error; graphData is replaced exactly when the parsed graph
\* has at least one node.
C27_EmptyKeepsModel ==
    [][(completes /\ ending.data # Undefined) =>
         IF Len(ending.data.nodes) = 0
         THEN /\ graphData' = graphData
              /\ rendered' = rendered
              /\ error' = Warning
         ELSE /\ graphData' = ending.data
              /\ error' = error]_vars

\* C27 (witness): a call has replaced the demo graph, a later call has
\* ended with a graph of no nodes, and the graph of the first is still
\* graphData and rendered, the warning being the error
C27_Witness ==
    /\ Len(completed) = 2
    /\ completed[1].kind = "model"
    /\ completed[2].data # Undefined
    /\ Len(completed[2].data.nodes) = 0
    /\ graphData = completed[1].data
    /\ rendered.data = graphData
    /\ error = Warning

-----------------------------------------------------------------------------
(* Claims about the function calls of a message                            *)

\* the updateGraphControl calls of a message, in the order of the message
updateCalls(msg) == SelectSeq(msg.calls, isUpdate)

\* the tool responses that acknowledge these calls, one for each
acksOf(msg) ==
    [i \in 1..Len(updateCalls(msg)) |->
       [id |-> updateCalls(msg)[i].id, name |-> updateCalls(msg)[i].name]]

\* the control state after one update for each of the calls fcs, in order
RECURSIVE updatedBy(_, _)
updatedBy(cs, fcs) ==
    IF fcs = <<>> THEN cs
    ELSE updatedBy(onControlUpdate(cs, sampleOf(Head(fcs).args)), Tail(fcs))

\* every updateGraphControl call of the message has an args object
allArgs(msg) == \A i \in 1..Len(updateCalls(msg)) : updateCalls(msg)[i].args.t = "object"

\* C28: every updateGraphControl function call of a received message
\* triggers exactly one control update, in the order of the calls in the
\* message, and is acknowledged with exactly one tool response that carries
\* the id and name of the call; function calls of any other name trigger
\* neither an update nor a response.
C28_EachCallOnce ==
    [][(isOnMessage /\ lastMessage'.toolCall = "calls") =>
         /\ updates' = updates + Len(updateCalls(lastMessage'))
         /\ sent' = acksOf(lastMessage')
         /\ allArgs(lastMessage') =>
              controlState' = updatedBy(controlState, updateCalls(lastMessage'))]_vars

\* the same for a message whose updateGraphControl calls all have an args
\* object, handled while activeSession is set: this much the code does
EachCallOnceInSession ==
    [][(/\ isOnMessage /\ lastMessage'.toolCall = "calls"
        /\ allArgs(lastMessage') /\ activeSession # "null") =>
         /\ updates' = updates + Len(updateCalls(lastMessage'))
         /\ sent' = acksOf(lastMessage')
         /\ controlState' = updatedBy(controlState, updateCalls(lastMessage'))]_vars

-----------------------------------------------------------------------------
(* Claims about the life of the live session                               *)

\* connect() has returned or thrown
connectEnded == connectPc \in {"noKey", "failed", "connected"}

\* nothing that connect() acquires is held: the tracks are stopped, the timer
\* is cleared, the audio nodes are disconnected and the context closed, and
\* there is no session
released ==
    /\ stream # "live"
    /\ videoInterval # "running"
    /\ source # "connected"
    /\ processor # "connected"
    /\ audioContext # "running"
    /\ activeSession = "null"
    /\ socket # "open"

\* C24: on every exit path of the live session, that is disconnect() after
\* a completed connect(), disconnect() while connect() is still awaiting the
\* media stream or the session, and a failed connect(), every resource that
\* was acquired is released; and after disconnect() no video frame and no
\* audio chunk is sent any more.
C24_Teardown ==
    /\ []((disconnected /\ connectEnded) => released)
    /\ [](connectPc = "failed" => released)
    /\ [][disconnected => chunks' = chunks]_vars

\* what disconnect() does do: when it returns, everything that connect()
\* had acquired up to then is released; and after a disconnect() that was
\* called when connect() had ended, nothing is acquired or sent any more
DisconnectReleases ==
    /\ [][(~disconnected /\ disconnected') =>
            /\ stream' # "live" /\ videoInterval' # "running"
            /\ source' # "connected" /\ processor' # "connected"
            /\ audioContext' # "running" /\ activeSession' = "null"
            /\ ~isConnected'
            /\ chunks' = chunks]_vars
    /\ [][(disconnected /\ connectEnded /\ released) =>
            (released' /\ chunks' = chunks)]_vars

\* C26: isLiveConnected is true only while a live session is established:
\* it stays false when connect() returns for want of an API key, it is false
\* after the session has closed or failed, and it is false after the cleanup
\* of the effect has called disconnect(), even if connect() resolves later.
C26_ActiveOnlyInSession ==
    isLiveConnected =>
      /\ connectPc = "connected"
      /\ socket = "open"
      /\ ~disconnected

\* what the code does do: isLiveConnected is false while connect() is
\* awaiting and after it has failed, and it is false when the cleanup returns
FalseUntilResolved ==
    /\ [](connectPc \in {"init", "getUserMedia", "play", "session", "failed"}
             => ~isLiveConnected)
    /\ [][(~disconnected /\ disconnected') => ~isLiveConnected']_vars

====
